---------------------------- MODULE Spec2Model ----------------------------
(***************************************************************************)
(* A model of src/src/lib.rs: the TSC calibration handle (TSC::new /       *)
(* TSC::cpu_freq), the hardware counter (TSC::read_tsc) and the two        *)
(* conversions (TSC::now_ns, TSC::now_f64).                                *)
(*                                                                         *)
(* The program computes on u32 registers, u64 integers and f64 floats.     *)
(* TLC's integers are 32 bits wide, so every machine number is a natural   *)
(* number of unbounded size, written as its sequence of base-1000 limbs,   *)
(* least significant first and without leading zero limbs (zero is << >>). *)
(* Two numbers are equal exactly when their sequences are equal.           *)
(***************************************************************************)
EXTENDS Integers, Sequences, FiniteSets, TLC

---------------------------------------------------------------------------
(* Natural numbers of unbounded size.                                      *)

Base == 10 ^ 3

Zero == << >>

RECURSIVE Norm(_)
Norm(s) ==
    IF s = << >> THEN << >>
    ELSE IF s[Len(s)] = 0 THEN Norm(SubSeq(s, 1, Len(s) - 1))
    ELSE s

\* Big(<<3, 0, 0, 0>>) is 3_000_000_000: the decimal numeral cut in groups of
\* three digits, most significant group first.
RECURSIVE Rev(_)
Rev(s) == IF s = << >> THEN << >> ELSE Append(Rev(Tail(s)), Head(s))

Big(groups) == Norm(Rev(groups))

RECURSIVE FromInt(_)
FromInt(n) == IF n = 0 THEN << >> ELSE <<n % Base>> \o FromInt(n \div Base)

One == <<1>>

RECURSIVE AddC(_, _, _)
AddC(a, b, c) ==
    IF a = << >> /\ b = << >>
    THEN (IF c = 0 THEN << >> ELSE <<c>>)
    ELSE LET x == IF a = << >> THEN 0 ELSE Head(a)
             y == IF b = << >> THEN 0 ELSE Head(b)
             s == x + y + c
         IN  <<s % Base>> \o AddC(IF a = << >> THEN << >> ELSE Tail(a),
                                  IF b = << >> THEN << >> ELSE Tail(b),
                                  s \div Base)

Add(a, b) == AddC(a, b, 0)

\* -1, 0 or 1 as a is below, equal to or above b.
RECURSIVE CmpSame(_, _, _)
CmpSame(a, b, i) ==
    IF i = 0 THEN 0
    ELSE IF a[i] < b[i] THEN -1
    ELSE IF a[i] > b[i] THEN 1
    ELSE CmpSame(a, b, i - 1)

Cmp(a, b) ==
    IF Len(a) < Len(b) THEN -1
    ELSE IF Len(a) > Len(b) THEN 1
    ELSE CmpSame(a, b, Len(a))

Lt(a, b) == Cmp(a, b) = -1
Leq(a, b) == Cmp(a, b) # 1

\* a - b, for b <= a.
RECURSIVE SubB(_, _, _)
SubB(a, b, w) ==
    IF a = << >> THEN << >>
    ELSE LET y == IF b = << >> THEN 0 ELSE Head(b)
             d == Head(a) - y - w
         IN  <<IF d < 0 THEN d + Base ELSE d>>
                 \o SubB(Tail(a), IF b = << >> THEN << >> ELSE Tail(b),
                         IF d < 0 THEN 1 ELSE 0)

Sub(a, b) == Norm(SubB(a, b, 0))

\* a * d for one limb d.
RECURSIVE MulSmallC(_, _, _)
MulSmallC(a, d, c) ==
    IF a = << >> THEN (IF c = 0 THEN << >> ELSE <<c>>)
    ELSE LET p == Head(a) * d + c
         IN  <<p % Base>> \o MulSmallC(Tail(a), d, p \div Base)

MulSmall(a, d) == IF d = 0 THEN << >> ELSE MulSmallC(a, d, 0)

\* a * Base.
ShiftLimb(a) == IF a = << >> THEN << >> ELSE <<0>> \o a

RECURSIVE Mul(_, _)
Mul(a, b) ==
    IF a = << >> \/ b = << >> THEN << >>
    ELSE Add(MulSmall(a, Head(b)), ShiftLimb(Mul(a, Tail(b))))

\* The largest d in lo..hi with b * d <= r.
RECURSIVE QDigit(_, _, _, _)
QDigit(r, b, lo, hi) ==
    IF lo = hi THEN lo
    ELSE LET mid == (lo + hi + 1) \div 2
         IN  IF Leq(MulSmall(b, mid), r)
             THEN QDigit(r, b, mid, hi)
             ELSE QDigit(r, b, lo, mid - 1)

\* The limbs of a above the k lowest, as an integer (at most three limbs).
TopLimbs(a, k) ==
    (IF Len(a) >= k + 1 THEN a[k + 1] ELSE 0)
    + (IF Len(a) >= k + 2 THEN a[k + 2] * Base ELSE 0)
    + (IF Len(a) >= k + 3 THEN a[k + 3] * Base * Base ELSE 0)

\* The quotient limb of r0 by b, for r0 < b * Base: searched between the bounds
\* that the two highest limbs of b give, bt <= b / Base^k < bt + 1.
QDigitTop(r0, b, rt, bt) ==
    QDigit(r0, b, rt \div (bt + 1),
           IF (rt + 1) \div bt < Base THEN (rt + 1) \div bt ELSE Base - 1)

QDigitOf(r0, b, k) == QDigitTop(r0, b, TopLimbs(r0, k), TopLimbs(b, k))

\* Quotient and remainder of a by b, for b # 0: schoolbook long division.
\* One step takes the quotient hq of the higher limbs and r0, their remainder
\* followed by the next limb, and finds the next quotient limb d.
DivOut(r0, hq, b, d) == [q |-> Norm(<<d>> \o hq), r |-> Sub(r0, MulSmall(b, d))]

DivDigit(r0, hq, b) ==
    DivOut(r0, hq, b,
           IF Lt(r0, b) THEN 0
           ELSE QDigitOf(r0, b, IF Len(b) >= 2 THEN Len(b) - 2 ELSE 0))

DivStep(a0, high, b) == DivDigit(Norm(<<a0>> \o high.r), high.q, b)

RECURSIVE DivMod(_, _)
DivMod(a, b) ==
    IF a = << >> THEN [q |-> << >>, r |-> << >>]
    ELSE DivStep(Head(a), DivMod(Tail(a), b), b)

Div(a, b) == DivMod(a, b).q
Mod(a, b) == DivMod(a, b).r

Square(a) == Mul(a, a)

RECURSIVE PowerOf2(_)
PowerOf2(k) ==
    IF k = 0 THEN One
    ELSE IF k % 2 = 1 THEN MulSmall(PowerOf2(k - 1), 2)
    ELSE Square(PowerOf2(k \div 2))

\* 2^k for k in 0..128, as a table.
Pow2Table == [i \in 1..129 |-> PowerOf2(i - 1)]

Pow2(k) == Pow2Table[k + 1]


---------------------------------------------------------------------------
(* Machine integers.                                                       *)

U32Max == Sub(Pow2(32), One)
Two64 == Pow2(64)
U64Max == Sub(Two64, One)

NS_PER_SEC == Big(<<1, 0, 0, 0>>)
MHZ == Big(<<1, 0, 0>>)

\* Bit k of register x: x & (1 << k) != 0.
BitSet(x, k) == Mod(Div(x, Pow2(k)), <<2>>) = One

\* `as u64` of a u32 register: the value is kept.
AsU64(x) == x

\* u64 multiplication and addition: the 64 low bits of the result, and whether
\* the exact result needed more.
Wrap64(p) ==
    IF Lt(p, Two64) THEN [val |-> p, ovf |-> FALSE]
    ELSE [val |-> Mod(p, Two64), ovf |-> TRUE]

U64Mul(a, b) == Wrap64(Mul(a, b))

U64Add(a, b) == Wrap64(Add(a, b))

---------------------------------------------------------------------------
(* The frequency resolver.                                                 *)

Errors == {"TscNotSupported", "InvariantTscNotSupported",
           "CpuidLeafTscFailed", "CpuidLeafFreqFailed"}

\* A Result<u64, Error>, with the CPUID leaves (or the register) the call read,
\* in order, and whether a u64 product in it overflowed.
Err(e, leaves) ==
    [ok |-> FALSE, err |-> e, freq |-> Zero, leaves |-> leaves, ovf |-> FALSE]
Ok(f, leaves, o) ==
    [ok |-> TRUE, err |-> "none", freq |-> f, leaves |-> leaves, ovf |-> o]

\* u32 multiplication: the 32 low bits of the result, and whether the exact
\* result needed more.
U32Mul(a, b) ==
    LET p == Mul(a, b)
    IN  [val |-> Mod(p, Pow2(32)), ovf |-> ~Lt(p, Pow2(32))]

\* cpu_freq on x86_64 with the leaf 0x15 gate ahead of the invariant-TSC gate.
cpu_freq_x86_64_leaf15_first(c) ==
    IF ~BitSet(c.l1_edx, 4)
    THEN Err("TscNotSupported", <<"0x1">>)
    ELSE IF c.l15_ebx = Zero \/ c.l15_eax = Zero
    THEN Err("CpuidLeafTscFailed", <<"0x1", "0x15">>)
    ELSE IF ~BitSet(c.l80000007_edx, 8)
    THEN Err("InvariantTscNotSupported", <<"0x1", "0x15", "0x80000007">>)
    ELSE IF c.l15_ecx # Zero
    THEN LET p == U64Mul(AsU64(c.l15_ecx), AsU64(c.l15_ebx))
         IN  Ok(Div(p.val, AsU64(c.l15_eax)), <<"0x1", "0x15", "0x80000007">>,
                p.ovf)
    ELSE IF c.l16_eax = Zero
    THEN Err("CpuidLeafFreqFailed", <<"0x1", "0x15", "0x80000007", "0x16">>)
    ELSE LET p == U64Mul(AsU64(c.l16_eax), MHZ)
         IN  Ok(p.val, <<"0x1", "0x15", "0x80000007", "0x16">>, p.ovf)

\* cpu_freq on x86_64 multiplying the registers as u32, before any widening.
cpu_freq_x86_64_u32(c) ==
    IF ~BitSet(c.l1_edx, 4)
    THEN Err("TscNotSupported", <<"0x1">>)
    ELSE IF ~BitSet(c.l80000007_edx, 8)
    THEN Err("InvariantTscNotSupported", <<"0x1", "0x80000007">>)
    ELSE IF c.l15_ebx = Zero \/ c.l15_eax = Zero
    THEN Err("CpuidLeafTscFailed", <<"0x1", "0x80000007", "0x15">>)
    ELSE IF c.l15_ecx # Zero
    THEN LET p == U32Mul(c.l15_ecx, c.l15_ebx)
         IN  Ok(Div(AsU64(p.val), AsU64(c.l15_eax)),
                <<"0x1", "0x80000007", "0x15">>, p.ovf)
    ELSE IF c.l16_eax = Zero
    THEN Err("CpuidLeafFreqFailed", <<"0x1", "0x80000007", "0x15", "0x16">>)
    ELSE LET p == U32Mul(c.l16_eax, MHZ)
         IN  Ok(AsU64(p.val), <<"0x1", "0x80000007", "0x15", "0x16">>, p.ovf)

\* cpu_freq on x86_64: c holds the registers the four CPUID leaves return.
\* leaves lists the leaves queried, in order.
cpu_freq_x86_64(c) ==
    IF ~BitSet(c.l1_edx, 4)
    THEN Err("TscNotSupported", <<"0x1">>)
    ELSE IF ~BitSet(c.l80000007_edx, 8)
    THEN Err("InvariantTscNotSupported", <<"0x1", "0x80000007">>)
    ELSE IF c.l15_ebx = Zero \/ c.l15_eax = Zero
    THEN Err("CpuidLeafTscFailed", <<"0x1", "0x80000007", "0x15">>)
    ELSE IF c.l15_ecx # Zero
    THEN LET p == U64Mul(AsU64(c.l15_ecx), AsU64(c.l15_ebx))
         IN  Ok(Div(p.val, AsU64(c.l15_eax)), <<"0x1", "0x80000007", "0x15">>,
                p.ovf)
    ELSE IF c.l16_eax = Zero
    THEN Err("CpuidLeafFreqFailed", <<"0x1", "0x80000007", "0x15", "0x16">>)
    ELSE LET p == U64Mul(AsU64(c.l16_eax), MHZ)
         IN  Ok(p.val, <<"0x1", "0x80000007", "0x15", "0x16">>, p.ovf)

\* cpu_freq on aarch64: whatever cntfrq_el0 holds.
cpu_freq_aarch64(f) == Ok(f, <<"cntfrq_el0">>, FALSE)


---------------------------------------------------------------------------
(* The conversion to nanoseconds.                                          *)

\* The outcome of a now_ns call: the frequency of the handle, the counter
\* reading, "ok" with the value returned or the panic, and whether a u64
\* product or sum in it overflowed.
NoNs ==
    [status |-> "none", freq |-> Zero, raw |-> Zero, value |-> Zero,
     ovf |-> FALSE]

NsPanic(why, f, t, o) ==
    [status |-> why, freq |-> f, raw |-> t, value |-> Zero, ovf |-> o]

\* What a conversion returns whose u64 arithmetic gave v and overflowed or not
\* (o): an overflow panics in a build with overflow checks (checks = TRUE, the
\* debug profile) and wraps in one without (the release profile).
NsOut(freq, t, checks, o, v) ==
    IF o /\ checks THEN NsPanic("panic_overflow", freq, t, o)
    ELSE [status |-> "ok", freq |-> freq, raw |-> t, value |-> v, ovf |-> o]

\* now_ns as tsc * 1_000_000_000 / freq, without the split.
now_ns_naive(freq, t, checks) ==
    IF freq = Zero THEN NsPanic("panic_div_by_zero", freq, t, FALSE)
    ELSE LET p == U64Mul(t, NS_PER_SEC)
         IN  NsOut(freq, t, checks, p.ovf, Div(p.val, freq))

\* now_ns scaling by 1_000_000 instead of 1_000_000_000.
now_ns_micros(freq, t, checks) ==
    IF freq = Zero THEN NsPanic("panic_div_by_zero", freq, t, FALSE)
    ELSE LET qr == DivMod(t, freq)
             a  == U64Mul(qr.q, MHZ)
             b  == U64Mul(qr.r, MHZ)
             s  == U64Add(a.val, Div(b.val, freq))
         IN  NsOut(freq, t, checks, a.ovf \/ b.ovf \/ s.ovf, s.val)

\* now_ns rounding the fractional nanosecond to the nearest instead of
\* truncating it.
now_ns_rounding(freq, t, checks) ==
    IF freq = Zero THEN NsPanic("panic_div_by_zero", freq, t, FALSE)
    ELSE LET qr == DivMod(t, freq)
             a  == U64Mul(qr.q, NS_PER_SEC)
             b  == U64Mul(qr.r, NS_PER_SEC)
             h  == U64Add(b.val, Div(freq, <<2>>))
             s  == U64Add(a.val, Div(h.val, freq))
         IN  NsOut(freq, t, checks, a.ovf \/ b.ovf \/ h.ovf \/ s.ovf, s.val)

\* now_ns without the whole seconds: rem * 1_000_000_000 / freq alone.
now_ns_subsec(freq, t, checks) ==
    IF freq = Zero THEN NsPanic("panic_div_by_zero", freq, t, FALSE)
    ELSE LET b == U64Mul(Mod(t, freq), NS_PER_SEC)
         IN  NsOut(freq, t, checks, b.ovf, Div(b.val, freq))

\* now_ns with the counter reading t.  A division by zero panics in every
\* build.
now_ns(freq, t, checks) ==
    IF freq = Zero THEN NsPanic("panic_div_by_zero", freq, t, FALSE)
    ELSE LET qr   == DivMod(t, freq)
             secs == qr.q
             rem  == qr.r
             a    == U64Mul(secs, NS_PER_SEC)
             b    == U64Mul(rem, NS_PER_SEC)
             s    == U64Add(a.val, Div(b.val, freq))
         IN  NsOut(freq, t, checks, a.ovf \/ b.ovf \/ s.ovf, s.val)

---------------------------------------------------------------------------
(* The conversion to seconds, in IEEE 754 binary64.  A float here is never *)
(* negative: it is a NaN, an infinity, zero, or m * 2^e with a 53-bit      *)
(* mantissa m, 2^52 <= m < 2^53.                                           *)

Two52 == Pow2(52)
Two53 == Pow2(53)

F64NaN == [kind |-> "nan", m |-> Zero, e |-> 0]
F64Inf == [kind |-> "inf", m |-> Zero, e |-> 0]
F64Zero == [kind |-> "zero", m |-> Zero, e |-> 0]

\* m * 2^e with m already rounded: m = 2^53 is carried into the exponent.
F64Num(m, e) ==
    IF m = Two53 THEN [kind |-> "num", m |-> Two52, e |-> e + 1]
    ELSE [kind |-> "num", m |-> m, e |-> e]

\* n / d rounded to the nearest integer, ties to the even one.
RoundDiv(n, d) ==
    LET qr  == DivMod(n, d)
        c   == Cmp(MulSmall(qr.r, 2), d)
        odd == qr.q # Zero /\ Head(qr.q) % 2 = 1
    IN  IF c = 1 \/ (c = 0 /\ odd) THEN Add(qr.q, One) ELSE qr.q

\* The number of bits of a u64 n: the least L with n < 2^L.
BitLen(n) ==
    CHOOSE L \in 0..64 : Lt(n, Pow2(L)) /\ (L = 0 \/ ~Lt(n, Pow2(L - 1)))

\* `n as f64` for a u64 n: exact up to 53 bits, rounded to nearest beyond.
U64AsF64(n) ==
    IF n = Zero THEN F64Zero
    ELSE LET L == BitLen(n)
         IN  IF L <= 53 THEN F64Num(Mul(n, Pow2(53 - L)), L - 53)
             ELSE F64Num(RoundDiv(n, Pow2(L - 53)), L - 53)

\* a / b in f64, for a and b out of U64AsF64.
F64Div(a, b) ==
    IF b.kind = "zero" THEN (IF a.kind = "zero" THEN F64NaN ELSE F64Inf)
    ELSE IF a.kind = "zero" THEN F64Zero
    ELSE LET k == IF Leq(b.m, a.m) THEN 52 ELSE 53
         IN  F64Num(RoundDiv(Mul(a.m, Pow2(k)), b.m), a.e - b.e - k)

\* now_f64 with the operands of the division exchanged.
now_f64_inverted(freq, t) == F64Div(U64AsF64(freq), U64AsF64(t))

\* now_f64 with the counter reading t.
now_f64(freq, t) == F64Div(U64AsF64(t), U64AsF64(freq))

NoSecs == [status |-> "none", freq |-> Zero, raw |-> Zero, value |-> F64Zero]

---------------------------------------------------------------------------
(* The machine and the program on it.                                      *)

VARIABLES
    arch,             \* "x86_64" or "aarch64": the build's target_arch
    overflow_checks,  \* whether the build panics on integer overflow
    cpuid,            \* x86_64: the registers the CPUID leaves return
    cntfrq,           \* aarch64: the register cntfrq_el0
    tsc,              \* the hardware counter (rdtsc / cntvct_el0)
    handle,           \* the result of the latest TSC::new
    news,             \* the number of TSC::new calls so far
    outcomes,         \* every result TSC::new has returned
    ns,               \* the outcome of the latest now_ns
    prev_ns,          \* the outcome of the now_ns before it
    secs,             \* the outcome of the latest now_f64
    calls,            \* the number of now_ns and now_f64 calls so far
    alive             \* FALSE once a call has panicked

vars == <<arch, overflow_checks, cpuid, cntfrq, tsc, handle, news, outcomes,
          ns, prev_ns, secs, calls, alive>>

\* TSC::new is called at most MaxNew times, now_ns and now_f64 MaxCalls times.
MaxNew == 2
MaxCalls == 2

\* The values the registers range over: zero, the greatest, and values of real
\* machines (a 24 MHz crystal with ratio 125/1, a 3000 MHz base frequency).
L1Edx == {Zero, Pow2(4), Sub(U32Max, Pow2(4))}
L80000007Edx == {Zero, Pow2(8), Sub(U32Max, Pow2(8))}
L15Eax == {Zero, One, U32Max}
L15Ebx == {Zero, FromInt(125), U32Max}
L15Ecx == {Zero, FromInt(24000000), U32Max}
L16Eax == {Zero, FromInt(3000), U32Max}

GHz(k) == MulSmall(NS_PER_SEC, k)

\* The values cntfrq_el0 ranges over: zero, one, 1 MHz, 24 MHz, every whole
\* number of GHz up to 10, the neighbours of 1 GHz and 10 GHz, and the greatest.
CntFrq ==
    {Zero, One, MHZ, FromInt(24000000), Sub(GHz(1), One), Add(GHz(1), One),
     Sub(GHz(10), One), U64Max}
        \cup {GHz(k) : k \in 1..10}

NoCpuid == [l1_edx |-> Zero, l80000007_edx |-> Zero, l15_eax |-> Zero,
            l15_ebx |-> Zero, l15_ecx |-> Zero, l16_eax |-> Zero]

NoHandle == Err("unset", << >>)

cpu_freq == IF arch = "x86_64" THEN cpu_freq_x86_64(cpuid)
            ELSE cpu_freq_aarch64(cntfrq)

\* The most whole seconds whose nanoseconds fit a u64.
MaxSecs == Div(U64Max, NS_PER_SEC)

\* The counter values a read may see, for a counter of f ticks a second: none,
\* half a second, a second, a second more than MaxSecs seconds, and the
\* greatest of all.
TscSamples(f) ==
    {t \in {Zero, Div(f, <<2>>), f, Mul(Add(MaxSecs, One), f), U64Max} :
        Leq(t, U64Max)}

Init ==
    /\ overflow_checks \in BOOLEAN
    /\ \/ /\ arch = "x86_64"
          /\ cpuid \in [l1_edx : L1Edx, l80000007_edx : L80000007Edx,
                        l15_eax : L15Eax, l15_ebx : L15Ebx, l15_ecx : L15Ecx,
                        l16_eax : L16Eax]
          /\ cntfrq = Zero
       \/ /\ arch = "aarch64"
          /\ cpuid = NoCpuid
          /\ cntfrq \in CntFrq
    /\ tsc = Zero
    /\ handle = NoHandle
    /\ news = 0
    /\ outcomes = {}
    /\ ns = NoNs
    /\ prev_ns = NoNs
    /\ secs = NoSecs
    /\ calls = 0
    /\ alive = TRUE

\* The hardware counter advances.  Nothing reads it before a handle exists, so
\* its motion is followed from then on.
Tick ==
    /\ handle.ok
    /\ \E t \in TscSamples(handle.freq) : Lt(tsc, t) /\ tsc' = t
    /\ UNCHANGED <<arch, overflow_checks, cpuid, cntfrq, handle, news,
                   outcomes, ns, prev_ns, secs, calls, alive>>

\* TSC::new measuring the frequency against the counter instead of reading it
\* from the CPU: the result moves with the counter.
New_measuring ==
    /\ alive
    /\ news < MaxNew
    /\ LET r == IF cpu_freq.ok
                THEN [cpu_freq EXCEPT !.freq = Mod(Add(cpu_freq.freq, tsc), Two64)]
                ELSE cpu_freq
       IN  /\ handle' = r
           /\ outcomes' = outcomes \cup {[ok |-> r.ok, err |-> r.err,
                                          freq |-> r.freq]}
    /\ news' = news + 1
    /\ UNCHANGED <<arch, overflow_checks, cpuid, cntfrq, tsc, ns, prev_ns,
                   secs, calls, alive>>

\* TSC::new: let freq = Self::cpu_freq()?; Ok(Self { freq })
New ==
    /\ alive
    /\ news < MaxNew
    /\ LET r == cpu_freq
       IN  /\ handle' = r
           /\ outcomes' = outcomes \cup {[ok |-> r.ok, err |-> r.err,
                                          freq |-> r.freq]}
    /\ news' = news + 1
    /\ UNCHANGED <<arch, overflow_checks, cpuid, cntfrq, tsc, ns, prev_ns,
                   secs, calls, alive>>

read_tsc == tsc

get_freq == handle.freq

\* self.now_ns() on the handle of a successful TSC::new.
NowNs ==
    /\ alive
    /\ handle.ok
    /\ calls < MaxCalls
    /\ LET r == now_ns(get_freq, read_tsc, overflow_checks)
       IN  /\ ns' = r
           /\ alive' = (r.status = "ok")
    /\ prev_ns' = ns
    /\ calls' = calls + 1
    /\ UNCHANGED <<arch, overflow_checks, cpuid, cntfrq, tsc, handle, news,
                   outcomes, secs>>

\* self.now_f64() on the handle of a successful TSC::new.
NowF64 ==
    /\ alive
    /\ handle.ok
    /\ calls < MaxCalls
    /\ secs' = [status |-> "ok", freq |-> get_freq, raw |-> read_tsc,
                value |-> now_f64(get_freq, read_tsc)]
    /\ calls' = calls + 1
    /\ UNCHANGED <<arch, overflow_checks, cpuid, cntfrq, tsc, handle, news,
                   outcomes, ns, prev_ns, alive>>

Next == Tick \/ New \/ NowNs \/ NowF64

Spec == Init /\ [][Next]_vars

---------------------------------------------------------------------------
(* Properties.                                                             *)

Range(seq) == {seq[i] : i \in 1..Len(seq)}

\* A now_ns call has been made and has ended, with a value or a panic.
NsCalled == ns.status # "none"

\* C1, as amended: for every frequency in [1_000_000_000, 10_000_000_000],
\* now_ns on the counter value u64::MAX returns a value, and neither of the
\* products secs * 1_000_000_000 and rem * 1_000_000_000 nor their sum
\* overflows 64 bits.
C1_NoOverflowFromOneGHz ==
    (NsCalled /\ ns.raw = U64Max /\ Leq(GHz(1), ns.freq) /\ Leq(ns.freq, GHz(10)))
        => (ns.status = "ok" /\ ~ns.ovf)

\* C1's case at the lower end of the amended range: 1 GHz, where u64::MAX ticks
\* are u64::MAX nanoseconds.
C1_Witness ==
    /\ ns.status = "ok"
    /\ ns.raw = U64Max
    /\ ns.freq = GHz(1)
    /\ ns.value = U64Max
    /\ ~ns.ovf

\* C1 as stated: the same for every frequency in [1_000_000, 10_000_000_000].
C1_Original ==
    (NsCalled /\ ns.raw = U64Max /\ Leq(MHZ, ns.freq) /\ Leq(ns.freq, GHz(10)))
        => (ns.status = "ok" /\ ~ns.ovf)

\* C2 as stated: every handle TSC::new returns successfully has a nonzero
\* frequency.
C2_FrequencyPositive == (news > 0 /\ handle.ok) => handle.freq # Zero

\* C3 as stated: now_ns on a handle of a successful TSC::new always returns a
\* value; it never panics.
C3_RuntimeInfallible == NsCalled => ns.status = "ok"

\* C4: on x86_64 the resolver reports the first gate that fails, in the order
\* TSC bit, invariant-TSC bit, leaf 0x15 denominator or numerator, crystal and
\* base frequency both zero, and succeeds exactly when none fails.
C4_GateOrder ==
    (arch = "x86_64" /\ news > 0) =>
        LET counter   == BitSet(cpuid.l1_edx, 4)
            invariant == BitSet(cpuid.l80000007_edx, 8)
            timing    == cpuid.l15_eax # Zero /\ cpuid.l15_ebx # Zero
            frequency == cpuid.l15_ecx # Zero \/ cpuid.l16_eax # Zero
        IN  /\ handle.err = "TscNotSupported" <=> ~counter
            /\ handle.err = "InvariantTscNotSupported" <=> counter /\ ~invariant
            /\ handle.err = "CpuidLeafTscFailed"
                   <=> counter /\ invariant /\ ~timing
            /\ handle.err = "CpuidLeafFreqFailed"
                   <=> counter /\ invariant /\ timing /\ ~frequency
            /\ handle.ok <=> counter /\ invariant /\ timing /\ frequency
            /\ handle.ok <=> handle.err \notin Errors

\* C4's case: the invariant-TSC gate fails on a CPU whose later gates would
\* fail too, and is the one reported.
C4_Witness ==
    /\ arch = "x86_64"
    /\ news > 0
    /\ handle.err = "InvariantTscNotSupported"
    /\ cpuid.l15_eax = Zero
    /\ cpuid.l15_ecx = Zero
    /\ cpuid.l16_eax = Zero

\* C5: for a handle of nonzero frequency, now_ns on exactly freq ticks returns
\* 1_000_000_000; at 3_000_000_000 Hz, 1_500_000_000 ticks give 500_000_000.
C5_OneSecond ==
    /\ (NsCalled /\ ns.freq # Zero /\ ns.raw = ns.freq)
           => (ns.status = "ok" /\ ns.value = NS_PER_SEC)
    /\ (NsCalled /\ ns.freq = GHz(3) /\ ns.raw = Big(<<1, 500, 0, 0>>))
           => (ns.status = "ok" /\ ns.value = Big(<<500, 0, 0>>))

\* C5's case: at 3_000_000_000 Hz, half a second was read and then a second.
C5_Witness ==
    /\ prev_ns.status = "ok"
    /\ prev_ns.freq = GHz(3)
    /\ prev_ns.raw = Big(<<1, 500, 0, 0>>)
    /\ prev_ns.value = Big(<<500, 0, 0>>)
    /\ ns.status = "ok"
    /\ ns.freq = GHz(3)
    /\ ns.raw = GHz(3)
    /\ ns.value = NS_PER_SEC

\* C6: on one machine every call of TSC::new gives the same outcome: the same
\* frequency, or the same error.
C6_Deterministic == Cardinality(outcomes) <= 1

\* C6's case: TSC::new has been called more than once, on a machine whose
\* counter has moved and on which a conversion has run.
C6_Witness == news >= 2 /\ calls > 0 /\ tsc # Zero /\ outcomes # {}

\* C7: for a handle of nonzero frequency, the counter value 0 converts to 0
\* nanoseconds and to 0.0 seconds.
C7_Zero ==
    /\ (NsCalled /\ ns.freq # Zero /\ ns.raw = Zero)
           => (ns.status = "ok" /\ ns.value = Zero)
    /\ (secs.status = "ok" /\ secs.freq # Zero /\ secs.raw = Zero)
           => secs.value = F64Zero

\* C7's case: both conversions have run on the counter value 0.
C7_Witness ==
    /\ ns.status = "ok"
    /\ ns.freq # Zero
    /\ ns.raw = Zero
    /\ secs.status = "ok"
    /\ secs.freq # Zero
    /\ secs.raw = Zero
    /\ secs.value.kind = "zero"

\* C8: on x86_64, a successful resolve gives crystal * numerator / denominator
\* (truncated) when the crystal frequency is nonzero and base MHz * 1_000_000
\* otherwise, no u64 product overflows, and leaf 0x16 is queried only when the
\* crystal frequency is zero.
C8_Frequency ==
    (arch = "x86_64" /\ news > 0) =>
        /\ "0x16" \in Range(handle.leaves) => cpuid.l15_ecx = Zero
        /\ handle.ok =>
               /\ ~handle.ovf
               /\ handle.freq =
                      IF cpuid.l15_ecx # Zero
                      THEN Div(Mul(cpuid.l15_ecx, cpuid.l15_ebx), cpuid.l15_eax)
                      ELSE Mul(cpuid.l16_eax, MHZ)

\* C8's case: the greatest crystal frequency and numerator, over 1.
C8_Witness ==
    /\ arch = "x86_64"
    /\ handle.ok
    /\ cpuid.l15_ecx = U32Max
    /\ cpuid.l15_ebx = U32Max
    /\ cpuid.l15_eax = One
    /\ handle.freq = Mul(U32Max, U32Max)

\* C9: when no u64 product or sum overflows, now_ns returns the floor of
\* raw * 1_000_000_000 / freq, computed without bound.
C9_ExactFloor ==
    (ns.status = "ok" /\ ~ns.ovf)
        => ns.value = Div(Mul(ns.raw, NS_PER_SEC), ns.freq)

\* C9's case: more than a second of ticks, and a fraction of a nanosecond to
\* truncate.
C9_Witness ==
    /\ ns.status = "ok"
    /\ ~ns.ovf
    /\ Lt(ns.freq, ns.raw)
    /\ Mod(ns.raw, ns.freq) # Zero
    /\ Mod(Mul(ns.raw, NS_PER_SEC), ns.freq) # Zero

\* C10, as amended: of two now_ns calls in a row on a counter that does not go
\* back, neither of which overflows 64 bits, the later returns no less than the
\* earlier.
C10_MonotonicWithoutOverflow ==
    (prev_ns.status = "ok" /\ ns.status = "ok" /\ ~prev_ns.ovf /\ ~ns.ovf)
        => Leq(prev_ns.value, ns.value)

\* C10's case: the counter advanced between two calls, and so did the
\* nanoseconds.
C10_Witness ==
    /\ prev_ns.status = "ok"
    /\ ns.status = "ok"
    /\ ~prev_ns.ovf
    /\ ~ns.ovf
    /\ Lt(prev_ns.raw, ns.raw)
    /\ Lt(prev_ns.value, ns.value)

\* C10 as stated: of two now_ns calls in a row on a counter that does not go
\* back, the later returns no less than the earlier.
C10_Original ==
    (prev_ns.status = "ok" /\ ns.status = "ok")
        => Leq(prev_ns.value, ns.value)

\* The counter never goes back between two now_ns calls.
CounterNonDecreasing ==
    (prev_ns.status = "ok" /\ NsCalled) => Leq(prev_ns.raw, ns.raw)

TypeOK ==
    /\ arch \in {"x86_64", "aarch64"}
    /\ overflow_checks \in BOOLEAN
    /\ Leq(tsc, U64Max)
    /\ Leq(handle.freq, U64Max)
    /\ Leq(ns.value, U64Max)
    /\ news \in 0..MaxNew
    /\ calls \in 0..MaxCalls
    /\ alive \in BOOLEAN

=============================================================================
